---- MODULE Spec2Model ----
(***************************************************************************)
(* Model of the mirror session engine of mc (mirror-main.go):              *)
(* doPrepareMirrorURLs, doMirrorSession (aggregator goroutine, executor    *)
(* goroutine), doMirror, doMirrorFake and mainMirror, together with the    *)
(* session store and the resume predicate they call.                       *)
(*                                                                         *)
(* A URL is a positive integer (the number of the object among the objects *)
(* the enumeration found); 0 stands for the empty string.                  *)
(***************************************************************************)
EXTENDS Integers, Sequences, FiniteSets, TLC

\* ---------------------------------------------------------------- bounds
MaxUnits == 3      \* units the enumeration yields before it closes, at most
MaxSkipped == 1    \* error items and empty items the enumeration yields, at most
MaxCPU   == 3      \* runtime.NumCPU() is 1 or MaxCPU
MaxRuns  == 2      \* launches of the same session (first run + resumes)

Pos   == 1..MaxUnits

\* the machines the program runs on: a single core, or MaxCPU cores
CPUs == {1, MaxCPU}

\* SourceContent.Size of object u of the source tree
SizeOf(u) == 10 * u

\* ------------------------------------------------------- error taxonomy
SkipErrors == {"BrokenSymlink", "TooManyLevelsSymlink", "PathNotFound",
               "PathInsufficientPermission"}
\* errors getSource is made to return
GetErrors == {"PathNotFound", "Unexpected"}
\* errors putTargets is made to return
PutErrors == {"PathInsufficientPermission", "Unexpected"}

\* the type switch of the aggregator: TRUE when the loop continues
IsSkipClass(e) ==
    \/ e = "BrokenSymlink"
    \/ e = "TooManyLevelsSymlink"
    \/ e = "PathNotFound"
    \/ e = "PathInsufficientPermission"

VARIABLES
    numCPU,        \* runtime.NumCPU()
    globalQuietFlag,  \* --quiet
    globalJSONFlag,   \* --json
    globalDebugFlag,  \* --debug
    run,           \* number of the current launch of the session
    proc,          \* "running" | "exited"
    exitCode,      \* exit status of the last launch (-1 while running)
    mainPc,        \* position of the main goroutine
    session,       \* "live" | "deleted"  (header + log on disk)
    header,        \* session.Header (in memory)
    disk,          \* the header as last persisted by Save
    log,           \* the session data file: sequence of units
    skipped,       \* error items and empty items received from URLsCh so far
    totalBytes,    \* local of doPrepareMirrorURLs
    totalObjects,  \* local of doPrepareMirrorURLs
    trapCh,        \* "off" | "armed" | "full" | "taken"
    icLast,        \* lastCopied captured by isCopiedFactory
    aggPc,         \* aggregator goroutine
    aggMsg,        \* log position of the result the aggregator holds (0: none)
    aggErr,        \* sURLs.Error of the result the aggregator holds
    execPc,        \* executor goroutine
    scanPos,       \* log position the scanner reads next
    statusCh,      \* "open" | "closed"
    mirrorQueue,   \* number of elements in the mirrorQueue channel
    mirrorWg,      \* counter of mirrorWg
    taskPc,        \* per log position: the doMirror goroutine
    taskErr,       \* per log position: sURLs.Error of the task
    result,        \* per log position: class of the result the aggregator received
    replayed,      \* log positions replayed by doMirrorFake in this run
    saved,         \* log positions checkpointed (LastCopied + Save) in this run
    prevPutOk,     \* URLs whose putTargets returned nil in an earlier run
    prepRan,       \* doPrepareMirrorURLs was entered in this run
    trapDuring     \* where the run was when the signal arrived

vars == <<numCPU, globalQuietFlag, globalJSONFlag, globalDebugFlag, run, proc, exitCode, mainPc, session, header, disk, log,
          skipped, totalBytes, totalObjects, trapCh, icLast, aggPc, aggMsg,
          aggErr, execPc, scanPos, statusCh, mirrorQueue, mirrorWg, taskPc,
          taskErr, result, replayed, saved, prevPutOk, prepRan, trapDuring>>

\* ------------------------------------------------------------- helpers
Max(a, b) == IF a >= b THEN a ELSE b

\* capacity of mirrorQueue
PoolSize(n) == Max(n - 1, 1)

\* position in the log of the unit whose source URL is u (0 when absent)
PosOf(u) ==
    IF \E i \in 1..Len(log) : log[i].URL = u
    THEN CHOOSE i \in 1..Len(log) : log[i].URL = u
    ELSE 0

URLAt(i) == IF i \in 1..Len(log) THEN log[i].URL ELSE 0

RECURSIVE SumSizes(_)
SumSizes(s) == IF s = <<>> THEN 0 ELSE Head(s).Size + SumSizes(Tail(s))

\* session.HasData
HasData == Len(log) > 0

\* the predicate returned by isCopiedFactory(lastCopied)
isCopied(u) ==
    /\ icLast # 0
    /\ PosOf(icLast) # 0
    /\ PosOf(u) <= PosOf(icLast)

NoTasks == [i \in Pos |-> "none"]
NoErrs  == [i \in Pos |-> "nil"]

NewHeader == [TotalBytes |-> 0, TotalObjects |-> 0, LastCopied |-> 0]

\* the progress bar is constructed only in the interactive mode
BarConstructed == ~globalQuietFlag /\ ~globalJSONFlag

\* ---------------------------------------------------------------- Init
\* a new session, whatever the output mode
NewSession ==
    /\ numCPU \in CPUs
    /\ run = 1
    /\ proc = "running"
    /\ exitCode = -1
    /\ mainPc = "start"
    /\ session = "live"
    /\ header = NewHeader
    /\ disk = NewHeader
    /\ log = <<>>
    /\ skipped = 0
    /\ totalBytes = 0
    /\ totalObjects = 0
    /\ trapCh = "off"
    /\ icLast = 0
    /\ aggPc = "idle"
    /\ aggMsg = 0
    /\ aggErr = "nil"
    /\ execPc = "idle"
    /\ scanPos = 1
    /\ statusCh = "open"
    /\ mirrorQueue = 0
    /\ mirrorWg = 0
    /\ taskPc = NoTasks
    /\ taskErr = NoErrs
    /\ result = NoTasks
    /\ replayed = {}
    /\ saved = {}
    /\ prevPutOk = {}
    /\ prepRan = FALSE
    /\ trapDuring = "none"

\* the interactive mode: no output flag is set
Init ==
    /\ NewSession
    /\ globalQuietFlag = FALSE
    /\ globalJSONFlag = FALSE
    /\ globalDebugFlag = FALSE

\* groups of variables left alone
prepVars == <<skipped, totalBytes, totalObjects>>
goVars   == <<icLast, aggPc, aggMsg, aggErr, execPc, scanPos, statusCh,
              mirrorQueue, mirrorWg, taskPc, taskErr, result, replayed, saved>>
flagVars == <<globalQuietFlag, globalJSONFlag, globalDebugFlag>>
envVars  == <<numCPU, flagVars, run, prevPutOk>>
procVars == <<proc, exitCode>>
storeVars == <<session, header, disk, log>>

\* ------------------------------------------------------- session store
\* session.CloseAndDie: persist the header, exit with a non-zero status
CloseAndDie ==
    /\ disk' = header
    /\ proc' = "exited"
    /\ exitCode' = 1

\* --------------------------------------------- doMirrorSession: entry
\* doMirrorSession that prepares whether or not the session has data
SessionStart_AlwaysPrepare ==
    /\ proc = "running" /\ mainPc = "start"
    /\ trapCh' = "armed"
    /\ mainPc' = "prepare" /\ prepRan' = TRUE
    /\ UNCHANGED <<envVars, procVars, storeVars, prepVars, goVars, trapDuring>>

\* signalTrap is installed, then HasData decides whether to prepare
SessionStart ==
    /\ proc = "running" /\ mainPc = "start"
    /\ trapCh' = "armed"
    /\ IF HasData
       THEN mainPc' = "setup" /\ prepRan' = prepRan
       ELSE mainPc' = "prepare" /\ prepRan' = TRUE
    /\ UNCHANGED <<envVars, procVars, storeVars, prepVars, goVars, trapDuring>>

\* the user's interrupt / termination signal: trapCh receives one value
Interrupt ==
    /\ proc = "running" /\ trapCh = "armed"
    /\ trapCh' = "full"
    /\ trapDuring' = IF mainPc \in {"setup", "execute"} /\ statusCh = "open"
                     THEN "execute" ELSE "other"
    /\ UNCHANGED <<envVars, procVars, mainPc, storeVars, prepVars, goVars,
                   prepRan>>

\* ------------------------------------------------ doPrepareMirrorURLs
\* URLsCh yields a unit: it is appended to the log and counted
PrepUnit ==
    /\ proc = "running" /\ mainPc = "prepare"
    /\ Len(log) < MaxUnits
    /\ log' = Append(log, [URL |-> Len(log) + 1, Size |-> SizeOf(Len(log) + 1)])
    /\ totalBytes' = totalBytes + log'[Len(log')].Size
    /\ totalObjects' = totalObjects + 1
    /\ UNCHANGED <<envVars, procVars, mainPc, session, header, disk, skipped,
                   trapCh, goVars, prepRan, trapDuring>>

\* an item carrying an error that is counted as an object
PrepError_Counted ==
    /\ proc = "running" /\ mainPc = "prepare"
    /\ skipped < MaxSkipped
    /\ skipped' = skipped + 1
    /\ totalObjects' = totalObjects + 1
    /\ UNCHANGED <<envVars, procVars, mainPc, storeVars, totalBytes, trapCh,
                   goVars, prepRan, trapDuring>>

\* URLsCh yields an item carrying an error: reported, nothing else
PrepError ==
    /\ proc = "running" /\ mainPc = "prepare"
    /\ skipped < MaxSkipped
    /\ skipped' = skipped + 1
    /\ UNCHANGED <<envVars, procVars, mainPc, storeVars, totalBytes,
                   totalObjects, trapCh, goVars, prepRan, trapDuring>>

\* URLsCh yields an empty item: dropped
PrepEmpty ==
    /\ proc = "running" /\ mainPc = "prepare"
    /\ skipped < MaxSkipped
    /\ skipped' = skipped + 1
    /\ UNCHANGED <<envVars, procVars, mainPc, storeVars, totalBytes,
                   totalObjects, trapCh, goVars, prepRan, trapDuring>>

\* URLsCh is closed: the totals are committed and saved
PrepDone ==
    /\ proc = "running" /\ mainPc = "prepare"
    /\ header' = [header EXCEPT !.TotalBytes = totalBytes,
                                !.TotalObjects = totalObjects]
    /\ disk' = header'
    /\ mainPc' = "setup"
    /\ UNCHANGED <<envVars, procVars, session, log, prepVars, trapCh, goVars,
                   prepRan, trapDuring>>

\* a trap case that exits and leaves the partially prepared session behind
PrepInterrupt_KeepsSession ==
    /\ proc = "running" /\ mainPc = "prepare"
    /\ trapCh = "full"
    /\ trapCh' = "taken"
    /\ proc' = "exited"
    /\ exitCode' = 0
    /\ UNCHANGED <<envVars, mainPc, storeVars, prepVars, goVars, prepRan,
                   trapDuring>>

\* trapCh fires during the scan: the session is dropped, os.Exit(0)
PrepInterrupt ==
    /\ proc = "running" /\ mainPc = "prepare"
    /\ trapCh = "full"
    /\ trapCh' = "taken"
    /\ session' = "deleted"
    /\ proc' = "exited"
    /\ exitCode' = 0
    /\ UNCHANGED <<envVars, mainPc, header, disk, log, prepVars, goVars,
                   prepRan, trapDuring>>

\* --------------------------------- doMirrorSession: start the goroutines
\* (the locals of doPrepareMirrorURLs are out of scope from here on)
ExecSetup ==
    /\ proc = "running" /\ mainPc = "setup"
    /\ icLast' = header.LastCopied
    /\ aggPc' = "select"
    /\ execPc' = "scan"
    /\ scanPos' = 1
    /\ mainPc' = "execute"
    /\ skipped' = 0 /\ totalBytes' = 0 /\ totalObjects' = 0
    /\ UNCHANGED <<envVars, procVars, storeVars, trapCh, aggMsg, aggErr,
                   statusCh, mirrorQueue, mirrorWg, taskPc, taskErr, result, replayed,
                   saved, prepRan, trapDuring>>

\* ------------------------------------------------------------ executor
\* scanner.Scan() returned a unit that isCopied: doMirrorFake
ExecReplay ==
    /\ proc = "running" /\ execPc = "scan"
    /\ scanPos <= Len(log)
    /\ isCopied(log[scanPos].URL)
    /\ replayed' = replayed \cup {scanPos}
    /\ scanPos' = scanPos + 1
    /\ UNCHANGED <<envVars, procVars, mainPc, storeVars, prepVars, trapCh,
                   icLast, aggPc, aggMsg, aggErr, execPc, statusCh, mirrorQueue,
                   mirrorWg, taskPc, taskErr, result, saved, prepRan, trapDuring>>

\* doMirrorFake calls progressReader.Progress when neither the debug nor
\* the JSON flag is set
FakeCallsBar == ~globalDebugFlag /\ ~globalJSONFlag

\* doMirrorFake on a nil progressReader, when the call does not return: the
\* process panics (ExecReplay is the outcome in which the call returns)
ExecReplayPanic ==
    /\ proc = "running" /\ execPc = "scan"
    /\ scanPos <= Len(log)
    /\ isCopied(log[scanPos].URL)
    /\ FakeCallsBar /\ ~BarConstructed
    /\ proc' = "exited"
    /\ exitCode' = 2
    /\ UNCHANGED <<envVars, mainPc, storeVars, prepVars, trapCh, goVars,
                   prepRan, trapDuring>>

\* a dispatch that does not wait for a free slot of mirrorQueue
ExecDispatch_NoSlotWait ==
    /\ proc = "running" /\ execPc = "scan"
    /\ scanPos <= Len(log)
    /\ ~isCopied(log[scanPos].URL)
    /\ mirrorQueue' = mirrorQueue + 1
    /\ mirrorWg' = mirrorWg + 1
    /\ taskPc' = [taskPc EXCEPT ![scanPos] = "get"]
    /\ scanPos' = scanPos + 1
    /\ UNCHANGED <<envVars, procVars, mainPc, storeVars, prepVars, trapCh,
                   icLast, aggPc, aggMsg, aggErr, execPc, statusCh, taskErr,
                   result, replayed, saved, prepRan, trapDuring>>

\* a dispatch that does not consult isCopied
ExecDispatch_IgnoreCopied ==
    /\ proc = "running" /\ execPc = "scan"
    /\ scanPos <= Len(log)
    /\ mirrorQueue < PoolSize(numCPU)
    /\ mirrorQueue' = mirrorQueue + 1
    /\ mirrorWg' = mirrorWg + 1
    /\ taskPc' = [taskPc EXCEPT ![scanPos] = "get"]
    /\ scanPos' = scanPos + 1
    /\ UNCHANGED <<envVars, procVars, mainPc, storeVars, prepVars, trapCh,
                   icLast, aggPc, aggMsg, aggErr, execPc, statusCh, taskErr,
                   result, replayed, saved, prepRan, trapDuring>>

\* scanner.Scan() returned a pending unit: mirrorQueue <- true (blocks
\* while the channel is full); mirrorWg.Add(1); go doMirror(...)
ExecDispatch ==
    /\ proc = "running" /\ execPc = "scan"
    /\ scanPos <= Len(log)
    /\ ~isCopied(log[scanPos].URL)
    /\ mirrorQueue < PoolSize(numCPU)
    /\ mirrorQueue' = mirrorQueue + 1
    /\ mirrorWg' = mirrorWg + 1
    /\ taskPc' = [taskPc EXCEPT ![scanPos] = "get"]
    /\ scanPos' = scanPos + 1
    /\ UNCHANGED <<envVars, procVars, mainPc, storeVars, prepVars, trapCh,
                   icLast, aggPc, aggMsg, aggErr, execPc, statusCh, taskErr,
                   result, replayed, saved, prepRan, trapDuring>>

\* scanner.Scan() returned false: the loop ends, mirrorWg.Wait() begins
ExecScanEnd ==
    /\ proc = "running" /\ execPc = "scan"
    /\ scanPos > Len(log)
    /\ execPc' = "wait"
    /\ UNCHANGED <<envVars, procVars, mainPc, storeVars, prepVars, trapCh,
                   icLast, aggPc, aggMsg, aggErr, scanPos, statusCh, mirrorQueue,
                   mirrorWg, taskPc, taskErr, result, replayed, saved, prepRan,
                   trapDuring>>

\* an executor that closes statusCh without mirrorWg.Wait()
ExecClose_NoWait ==
    /\ proc = "running" /\ execPc = "wait"
    /\ statusCh' = "closed"
    /\ execPc' = "done"
    /\ UNCHANGED <<envVars, procVars, mainPc, storeVars, prepVars, trapCh,
                   icLast, aggPc, aggMsg, aggErr, scanPos, mirrorQueue, mirrorWg,
                   taskPc, taskErr, result, replayed, saved, prepRan, trapDuring>>

\* an executor that returns without closing statusCh
ExecClose_NoClose ==
    /\ proc = "running" /\ execPc = "wait"
    /\ mirrorWg = 0
    /\ execPc' = "done"
    /\ UNCHANGED <<envVars, procVars, mainPc, storeVars, prepVars, trapCh,
                   icLast, aggPc, aggMsg, aggErr, scanPos, statusCh, mirrorQueue,
                   mirrorWg, taskPc, taskErr, result, replayed, saved, prepRan,
                   trapDuring>>

\* mirrorWg.Wait() returned; deferred close(statusCh), wg.Done()
ExecClose ==
    /\ proc = "running" /\ execPc = "wait"
    /\ mirrorWg = 0
    /\ statusCh' = "closed"
    /\ execPc' = "done"
    /\ UNCHANGED <<envVars, procVars, mainPc, storeVars, prepVars, trapCh,
                   icLast, aggPc, aggMsg, aggErr, scanPos, mirrorQueue, mirrorWg,
                   taskPc, taskErr, result, replayed, saved, prepRan, trapDuring>>

\* ------------------------------------------------------------ doMirror
taskFrame == <<envVars, procVars, mainPc, storeVars, prepVars, trapCh, icLast,
               aggPc, aggMsg, aggErr, result, execPc, scanPos, statusCh,
               replayed, saved, prepRan, trapDuring>>

\* taskErr[i] is sURLs.Error of the unit doMirror was started with (nil for
\* every unit read from the log) until getSource or putTargets sets it.
\* sURLs.Error != nil on entry: the unit is sent back as it is
TaskErrored(i) ==
    /\ proc = "running" /\ taskPc[i] = "get"
    /\ taskErr[i] # "nil"
    /\ taskPc' = [taskPc EXCEPT ![i] = "send"]
    /\ UNCHANGED <<taskFrame, mirrorQueue, mirrorWg, taskErr>>

\* getSource returned a reader
TaskGetOk(i) ==
    /\ proc = "running" /\ taskPc[i] = "get"
    /\ taskErr[i] = "nil"
    /\ taskPc' = [taskPc EXCEPT ![i] = "put"]
    /\ UNCHANGED <<taskFrame, mirrorQueue, mirrorWg, taskErr>>

\* a failed getSource that does not return and goes on to putTargets
TaskGetErr_StillPuts(i, e) ==
    /\ proc = "running" /\ taskPc[i] = "get"
    /\ taskErr[i] = "nil"
    /\ taskErr' = [taskErr EXCEPT ![i] = e]
    /\ taskPc' = [taskPc EXCEPT ![i] = "put"]
    /\ UNCHANGED <<taskFrame, mirrorQueue, mirrorWg>>

\* getSource failed: the error is the result, putTargets is not called
TaskGetErr(i, e) ==
    /\ proc = "running" /\ taskPc[i] = "get"
    /\ taskErr[i] = "nil"
    /\ taskErr' = [taskErr EXCEPT ![i] = e]
    /\ taskPc' = [taskPc EXCEPT ![i] = "send"]
    /\ UNCHANGED <<taskFrame, mirrorQueue, mirrorWg>>

\* a task that records its own unit in the header after putTargets
TaskPutOk_WritesHeader(i) ==
    /\ proc = "running" /\ taskPc[i] = "put"
    /\ taskPc' = [taskPc EXCEPT ![i] = "send"]
    /\ header' = [header EXCEPT !.LastCopied = log[i].URL]
    /\ UNCHANGED <<envVars, procVars, mainPc, session, disk, log, prepVars,
                   trapCh, icLast, aggPc, aggMsg, aggErr, result, execPc, scanPos,
                   statusCh, replayed, saved, prepRan, trapDuring, mirrorQueue,
                   mirrorWg, taskErr>>

\* putTargets returned nil; sURLs.Error = nil
TaskPutOk(i) ==
    /\ proc = "running" /\ taskPc[i] = "put"
    /\ taskPc' = [taskPc EXCEPT ![i] = "send"]
    /\ UNCHANGED <<taskFrame, mirrorQueue, mirrorWg, taskErr>>

\* putTargets failed
TaskPutErr(i, e) ==
    /\ proc = "running" /\ taskPc[i] = "put"
    /\ taskErr' = [taskErr EXCEPT ![i] = e]
    /\ taskPc' = [taskPc EXCEPT ![i] = "send"]
    /\ UNCHANGED <<taskFrame, mirrorQueue, mirrorWg>>

\* the task is blocked in statusCh <- sURLs
Sending(i) == taskPc[i] = "send"

\* ---------------------------------------------------------- aggregator
ClassOf(e) == IF e = "nil" THEN "ok"
              ELSE IF IsSkipClass(e) THEN "skip" ELSE "fatal"

aggFrame == <<envVars, mainPc, prepVars, icLast, execPc, scanPos, statusCh,
              replayed, prepRan, trapDuring>>

\* statusCh is unbuffered: task i's statusCh <- sURLs and the aggregator's
\* case sURLs, ok := <-statusCh happen together.  The value moves to the
\* aggregator; doMirror returns and its deferred calls run: <-mirrorQueueCh,
\* then wg.Done().
AggRecv(i) ==
    /\ proc = "running" /\ aggPc = "select"
    /\ Sending(i)
    /\ aggMsg' = i
    /\ aggErr' = taskErr[i]
    /\ result' = [result EXCEPT ![i] = ClassOf(taskErr[i])]
    /\ aggPc' = "handle"
    /\ taskPc' = [taskPc EXCEPT ![i] = "done"]
    /\ taskErr' = [taskErr EXCEPT ![i] = "nil"]
    /\ mirrorQueue' = mirrorQueue - 1
    /\ mirrorWg' = mirrorWg - 1
    /\ UNCHANGED <<aggFrame, procVars, storeVars, trapCh, saved>>

\* a success branch that sets LastCopied and does not call session.Save()
AggCheckpoint_NoSave ==
    /\ proc = "running" /\ aggPc = "handle"
    /\ aggErr = "nil"
    /\ header' = [header EXCEPT !.LastCopied = log[aggMsg].URL]
    /\ saved' = saved \cup {aggMsg}
    /\ aggPc' = "select"
    /\ aggMsg' = 0
    /\ UNCHANGED <<aggFrame, procVars, session, disk, log, trapCh, aggErr,
                   taskPc, taskErr, result, mirrorQueue, mirrorWg>>

\* sURLs.Error == nil: LastCopied = URL; session.Save()
AggCheckpoint ==
    /\ proc = "running" /\ aggPc = "handle"
    /\ aggErr = "nil"
    /\ header' = [header EXCEPT !.LastCopied = log[aggMsg].URL]
    /\ disk' = header'
    /\ saved' = saved \cup {aggMsg}
    /\ aggPc' = "select"
    /\ aggMsg' = 0
    /\ UNCHANGED <<aggFrame, procVars, session, log, trapCh, aggErr, taskPc,
                   taskErr, result, mirrorQueue, mirrorWg>>

\* a switch whose skip-class cases fall through to CloseAndDie
AggSkip_Dies ==
    /\ proc = "running" /\ aggPc = "handle"
    /\ aggErr # "nil"
    /\ IsSkipClass(aggErr)
    /\ aggPc' = "fatal"
    /\ CloseAndDie
    /\ UNCHANGED <<aggFrame, session, header, log, trapCh, aggMsg, aggErr,
                   taskPc, taskErr, result, saved, mirrorQueue, mirrorWg>>

\* error of the skip class: reported, continue
AggSkip ==
    /\ proc = "running" /\ aggPc = "handle"
    /\ aggErr # "nil"
    /\ IsSkipClass(aggErr)
    /\ aggPc' = "select"
    /\ aggMsg' = 0
    /\ aggErr' = "nil"
    /\ UNCHANGED <<aggFrame, procVars, storeVars, trapCh, taskPc, taskErr,
                   result, saved, mirrorQueue, mirrorWg>>

\* any other error: session.CloseAndDie()
AggFatal ==
    /\ proc = "running" /\ aggPc = "handle"
    /\ aggErr # "nil"
    /\ ~IsSkipClass(aggErr)
    /\ aggPc' = "fatal"
    /\ CloseAndDie
    /\ UNCHANGED <<aggFrame, session, header, log, trapCh, aggMsg, aggErr,
                   taskPc, taskErr, result, saved, mirrorQueue, mirrorWg>>

\* a trap case that only drains trapCh and goes on selecting
AggTrap_Continue ==
    /\ proc = "running" /\ aggPc = "select"
    /\ trapCh = "full"
    /\ trapCh' = "taken"
    /\ UNCHANGED <<aggFrame, procVars, storeVars, aggPc, aggMsg, aggErr, taskPc,
                   taskErr, result, saved, mirrorQueue, mirrorWg>>

\* case <-trapCh: session.CloseAndDie()
AggTrap ==
    /\ proc = "running" /\ aggPc = "select"
    /\ trapCh = "full"
    /\ trapCh' = "taken"
    /\ aggPc' = "trapped"
    /\ CloseAndDie
    /\ UNCHANGED <<aggFrame, session, header, log, aggMsg, aggErr, taskPc,
                   taskErr, result, saved, mirrorQueue, mirrorWg>>

\* case <-statusCh with !ok: final summary, return
AggClosed ==
    /\ proc = "running" /\ aggPc = "select"
    /\ statusCh = "closed"
    /\ aggPc' = "returned"
    /\ UNCHANGED <<aggFrame, procVars, storeVars, trapCh, aggMsg, aggErr,
                   taskPc, taskErr, result, saved, mirrorQueue, mirrorWg>>

\* ---------------------------------------------------------- main thread
\* a doMirrorSession that returns without wg.Wait()
SessionReturn_NoWait ==
    /\ proc = "running" /\ mainPc = "execute"
    /\ mainPc' = "delete"
    /\ UNCHANGED <<envVars, procVars, storeVars, prepVars, trapCh, goVars,
                   prepRan, trapDuring>>

\* wg.Wait() returned: doMirrorSession returns to mainMirror
SessionReturn ==
    /\ proc = "running" /\ mainPc = "execute"
    /\ aggPc = "returned" /\ execPc = "done"
    /\ mainPc' = "delete"
    /\ UNCHANGED <<envVars, procVars, storeVars, prepVars, trapCh, goVars,
                   prepRan, trapDuring>>

\* session.Delete(); mainMirror returns
MainDelete ==
    /\ proc = "running" /\ mainPc = "delete"
    /\ session' = "deleted"
    /\ proc' = "exited"
    /\ exitCode' = 0
    /\ mainPc' = "end"
    /\ UNCHANGED <<envVars, header, disk, log, prepVars, trapCh, goVars,
                   prepRan, trapDuring>>

\* ------------------------------------------------------------- resume
\* URLs whose putTargets returned nil in the run that just ended
PutOkNow == {log[i].URL : i \in {j \in 1..Len(log) :
                 (taskPc[j] = "send" /\ taskErr[j] = "nil") \/ result[j] = "ok"}}

\* the preserved session is launched again: header and log are loaded
Resume ==
    /\ proc = "exited" /\ session = "live"
    /\ run < MaxRuns
    /\ run' = run + 1
    /\ proc' = "running"
    /\ exitCode' = -1
    /\ mainPc' = "start"
    /\ header' = disk
    /\ prevPutOk' = prevPutOk \cup PutOkNow
    /\ skipped' = 0 /\ totalBytes' = 0 /\ totalObjects' = 0
    /\ trapCh' = "off"
    /\ icLast' = 0
    /\ aggPc' = "idle" /\ aggMsg' = 0 /\ aggErr' = "nil"
    /\ execPc' = "idle" /\ scanPos' = 1
    /\ statusCh' = "open"
    /\ mirrorQueue' = 0 /\ mirrorWg' = 0
    /\ taskPc' = NoTasks /\ taskErr' = NoErrs /\ result' = NoTasks
    /\ replayed' = {} /\ saved' = {}
    /\ prepRan' = FALSE
    /\ trapDuring' = "none"
    /\ UNCHANGED <<numCPU, flagVars, session, disk, log>>

Next ==
    \/ SessionStart
    \/ Interrupt
    \/ PrepUnit
    \/ PrepError
    \/ PrepEmpty
    \/ PrepDone
    \/ PrepInterrupt
    \/ ExecSetup
    \/ ExecReplay
    \/ ExecDispatch
    \/ ExecScanEnd
    \/ ExecClose
    \/ \E i \in Pos : TaskGetOk(i)
    \/ \E i \in Pos, e \in GetErrors : TaskGetErr(i, e)
    \/ \E i \in Pos : TaskPutOk(i)
    \/ \E i \in Pos, e \in PutErrors : TaskPutErr(i, e)
    \/ \E i \in Pos : AggRecv(i)
    \/ AggCheckpoint
    \/ AggSkip
    \/ AggFatal
    \/ AggTrap
    \/ AggClosed
    \/ SessionReturn
    \/ MainDelete
    \/ Resume

Spec == Init /\ [][Next]_vars

\* ------------------------------------------------------------ scheduling
\* the steps of each goroutine in a run that receives no signal; the Go
\* scheduler runs every goroutine that stays runnable, and every getSource /
\* putTargets call returns
MainStep ==
    \/ SessionStart \/ PrepUnit \/ PrepError \/ PrepEmpty \/ PrepDone
    \/ ExecSetup \/ SessionReturn \/ MainDelete

ExecStep == ExecReplay \/ ExecDispatch \/ ExecScanEnd \/ ExecClose

TaskStep(i) ==
    \/ TaskGetOk(i)
    \/ \E e \in GetErrors : TaskGetErr(i, e)
    \/ TaskPutOk(i)
    \/ \E e \in PutErrors : TaskPutErr(i, e)

AggStep ==
    \/ \E i \in Pos : AggRecv(i)
    \/ AggCheckpoint \/ AggSkip \/ AggFatal \/ AggClosed

\* a step of some goroutine of the program
ProgStep == MainStep \/ ExecStep \/ AggStep \/ \E i \in Pos : TaskStep(i)

\* the session with no interrupt raised
QuietNext ==
    \/ MainStep
    \/ ExecStep
    \/ \E i \in Pos : TaskStep(i)
    \/ AggStep
    \/ Resume

\* while some goroutine can step, some goroutine does step (the scheduler
\* gives more: each runnable goroutine runs); launching the session again is
\* left to the user and is not fair
FairSpec == Init /\ [][QuietNext]_vars /\ WF_vars(ProgStep)

\* ------------------------------------------------------- finer task end
\* The rendezvous on statusCh alone: the value moves to the aggregator, the
\* task has still to return.
AggTake(i) ==
    /\ proc = "running" /\ aggPc = "select"
    /\ Sending(i)
    /\ aggMsg' = i
    /\ aggErr' = taskErr[i]
    /\ result' = [result EXCEPT ![i] = ClassOf(taskErr[i])]
    /\ aggPc' = "handle"
    /\ taskPc' = [taskPc EXCEPT ![i] = "ret"]
    /\ taskErr' = [taskErr EXCEPT ![i] = "nil"]
    /\ UNCHANGED <<aggFrame, procVars, storeVars, trapCh, saved, mirrorQueue,
                   mirrorWg>>

\* a doMirror that gives its slot back at the end of the success path only
TaskReturn_SuccessOnly(i) ==
    /\ proc = "running" /\ taskPc[i] = "ret"
    /\ taskPc' = [taskPc EXCEPT ![i] = "done"]
    /\ mirrorQueue' = IF result[i] = "ok" THEN mirrorQueue - 1 ELSE mirrorQueue
    /\ mirrorWg' = mirrorWg - 1
    /\ UNCHANGED <<taskFrame, taskErr>>

\* doMirror returns: the deferred <-mirrorQueueCh, then the deferred wg.Done()
TaskReturn(i) ==
    /\ proc = "running" /\ taskPc[i] = "ret"
    /\ taskPc' = [taskPc EXCEPT ![i] = "done"]
    /\ mirrorQueue' = mirrorQueue - 1
    /\ mirrorWg' = mirrorWg - 1
    /\ UNCHANGED <<taskFrame, taskErr>>

\* the session with no interrupt raised, with the hand-off of a result and
\* the return of its task as two steps
FineNext ==
    \/ MainStep
    \/ ExecStep
    \/ \E i \in Pos : TaskStep(i)
    \/ \E i \in Pos : AggTake(i)
    \/ \E i \in Pos : TaskReturn(i)
    \/ AggCheckpoint
    \/ AggSkip
    \/ AggFatal
    \/ AggClosed
    \/ Resume

FineSpec == Init /\ [][FineNext]_vars

\* ------------------------------------------------------ every output mode
FlagInit ==
    /\ NewSession
    /\ globalQuietFlag \in BOOLEAN
    /\ globalJSONFlag \in BOOLEAN
    /\ globalDebugFlag \in BOOLEAN

FlagNext == Next \/ ExecReplayPanic

FlagSpec == FlagInit /\ [][FlagNext]_vars

\* ------------------------------------------- doMirror on arbitrary units
\* sURLs.Error of a unit handed to doMirror
UnitErrors == {"nil", "BrokenSymlink"}

\* doMirrorSession at the start of its execution phase with a log of
\* MaxUnits units; the units handed to doMirror may carry an error
DoMirrorInit ==
    /\ numCPU \in CPUs
    /\ globalQuietFlag = FALSE
    /\ globalJSONFlag = FALSE
    /\ globalDebugFlag = FALSE
    /\ run = 1
    /\ proc = "running"
    /\ exitCode = -1
    /\ mainPc = "execute"
    /\ session = "live"
    /\ log = [i \in 1..MaxUnits |-> [URL |-> i, Size |-> SizeOf(i)]]
    /\ header = [TotalBytes |-> SumSizes(log), TotalObjects |-> Len(log),
                 LastCopied |-> 0]
    /\ disk = header
    /\ skipped = 0
    /\ totalBytes = 0
    /\ totalObjects = 0
    /\ trapCh = "armed"
    /\ icLast = 0
    /\ aggPc = "select"
    /\ aggMsg = 0
    /\ aggErr = "nil"
    /\ execPc = "scan"
    /\ scanPos = 1
    /\ statusCh = "open"
    /\ mirrorQueue = 0
    /\ mirrorWg = 0
    /\ taskPc = NoTasks
    /\ taskErr \in [Pos -> UnitErrors]
    /\ result = NoTasks
    /\ replayed = {}
    /\ saved = {}
    /\ prevPutOk = {}
    /\ prepRan = TRUE
    /\ trapDuring = "none"

DoMirrorNext ==
    \/ ExecDispatch
    \/ ExecScanEnd
    \/ ExecClose
    \/ \E i \in Pos : TaskErrored(i)
    \/ \E i \in Pos : TaskStep(i)
    \/ \E i \in Pos : AggTake(i)
    \/ \E i \in Pos : TaskReturn(i)
    \/ AggCheckpoint
    \/ AggSkip
    \/ AggFatal
    \/ AggClosed
    \/ SessionReturn
    \/ MainDelete

DoMirrorSpec == DoMirrorInit /\ [][DoMirrorNext]_vars

TypeOK ==
    /\ numCPU \in CPUs
    /\ run \in 1..MaxRuns
    /\ proc \in {"running", "exited"}
    /\ mirrorQueue \in 0..PoolSize(numCPU)
    /\ mirrorWg \in 0..MaxUnits
    /\ Len(log) <= MaxUnits

\* ================================================================ claims
Live(i) == taskPc[i] \in {"get", "put", "send"}
InExecution == mainPc \in {"execute", "delete", "end"}
LastURL == URLAt(Len(log))
Resumed == run > 1 /\ mainPc # "start"
PoolN == IF numCPU - 1 >= 1 THEN numCPU - 1 ELSE 1

\* C1: every unit that a resumed run treats as already applied (it is
\* replayed by doMirrorFake) had putTargets return success in an earlier run
\* of the same session.
C1_ReplayedWereTransferred ==
    Resumed => \A i \in replayed : log[i].URL \in prevPutOk

\* C2: at most N = max(NumCPU - 1, 1) dispatched tasks hold a slot at any
\* instant, and at most N tasks are inside putTargets.
C2_PoolBound ==
    /\ Cardinality({i \in Pos : Live(i)}) <= PoolN
    /\ Cardinality({i \in Pos : taskPc[i] = "put"}) <= PoolN
    /\ mirrorQueue <= PoolN

\* the pool (of 2 or more) is full of tasks in the write phase while a
\* further unit of the log waits for a slot
C2_Witness ==
    /\ PoolN >= 2
    /\ Cardinality({i \in Pos : taskPc[i] = "put"}) = PoolN
    /\ execPc = "scan" /\ scanPos <= Len(log)

\* C3: a unit for which isCopied is true in a resumed run is never
\* dispatched: no task, no slot, no getSource or putTargets, no result on
\* the status channel; once the scanner has passed it, it was replayed.
C3_NoDoubleTransfer ==
    InExecution =>
        \A i \in 1..Len(log) : isCopied(log[i].URL) =>
            /\ taskPc[i] = "none"
            /\ taskErr[i] = "nil"
            /\ result[i] = "none"
            /\ aggMsg # i
            /\ i \notin saved
            /\ (scanPos > i <=> i \in replayed)

\* a resumed run replayed units 1 and 2 and transfers unit 3
C3_Witness ==
    /\ Resumed /\ icLast = 2 /\ replayed = {1, 2} /\ taskPc[3] = "put"

\* C4: when the unit at position k fails fatally and no earlier unit failed,
\* the session is preserved, the persisted LastCopied is the URL of the unit
\* at position k-1 and no unit at position k or later was checkpointed, for
\* every pool size and completion order.
C4_FatalAbort ==
    (aggPc = "fatal" /\ \A j \in 1..(aggMsg - 1) :
                            result[j] # "skip" /\ taskErr[j] = "nil") =>
        /\ session = "live"
        /\ disk.LastCopied = URLAt(aggMsg - 1)
        /\ \A j \in saved : j < aggMsg

C5_SkipInv ==
    /\ \A e \in SkipErrors : IsSkipClass(e)
    /\ \A i \in 1..Len(log) : result[i] = "skip" =>
          /\ i \notin saved
          /\ InExecution => header.LastCopied # log[i].URL
          /\ disk.LastCopied # log[i].URL
    /\ (proc = "exited" /\ mainPc = "execute") => aggPc \in {"fatal", "trapped"}
    /\ mainPc = "end" =>
          /\ session = "deleted" /\ exitCode = 0
          /\ \A i \in 1..Len(log) :
                \/ i \in replayed
                \/ result[i] = "ok" /\ i \in saved
                \/ result[i] = "skip"

C5_SkipStep ==
    (aggPc = "handle" /\ aggErr \in SkipErrors /\ aggPc' # "handle") =>
        /\ aggPc' = "select"
        /\ proc' = "running"
        /\ header' = header /\ disk' = disk /\ session' = session

\* C5: a skip-class error does not end the run: the aggregator goes back to
\* its select with the header untouched; a unit whose result was a
\* skip-class error is never LastCopied; a run ends only by a fatal error,
\* by the trap, or completed, and a completed run covered every unit of the
\* log (replayed, checkpointed or skipped) and deleted the session.
C5_SkipContinue == []C5_SkipInv /\ [][C5_SkipStep]_vars

\* log of 3 units, unit 2 was skipped, units 1 and 3 were checkpointed, the
\* run completed
C5_Witness ==
    /\ mainPc = "end" /\ run = 1
    /\ result = <<"ok", "skip", "ok">>
    /\ saved = {1, 3}

\* C6 (as stated): a trap raised during the execution phase, before the run
\* completed, always leaves the session preserved.
C6_InterruptAlwaysPreserves ==
    trapDuring = "execute" => session = "live" /\ mainPc \notin {"delete", "end"}

\* C6 (amended): when the aggregator's select takes the trap, the header is
\* persisted by CloseAndDie, the process has exited with a non-zero status
\* and the session is not deleted; a run in which the trap was raised during
\* the execution phase deletes the session only if the aggregator returned
\* on the close of the status channel without ever taking the trap.
C6_ObservedInterruptPreserves ==
    /\ aggPc = "trapped" =>
          /\ proc = "exited" /\ exitCode # 0
          /\ session = "live"
          /\ disk = header
          /\ mainPc = "execute"
    /\ (trapDuring = "execute" /\ session = "deleted") =>
          /\ trapCh = "full" /\ aggPc = "returned"
    /\ (trapDuring = "execute" /\ trapCh = "taken") => aggPc = "trapped"

\* the trap was raised while a transfer was in its write phase, after a
\* checkpoint, and the aggregator took it
C6_Witness ==
    /\ trapDuring = "execute" /\ aggPc = "trapped"
    /\ \E i \in Pos : taskPc[i] = "put"
    /\ saved # {}

C7_NoRollbackStep ==
    (saved' # saved /\ run' = run) =>
        PosOf(header.LastCopied)' >= PosOf(header.LastCopied)

\* C7: every checkpoint write sets LastCopied to a unit whose log position
\* is not below the position of the previous LastCopied.
C7_NeverRolledBack == [][C7_NoRollbackStep]_vars

C8_DispatchStep ==
    (\E i \in Pos : taskPc[i] = "none" /\ taskPc'[i] = "get") =>
        \A j \in Pos : /\ ~(taskPc[j] = "send" /\ taskErr[j] = "nil")
                       /\ (result[j] = "ok" => j \in saved)

\* C8: when the executor dispatches a unit, every success result produced
\* so far has been checkpointed (LastCopied written and saved).
C8_DurableBeforeDispatch == [][C8_DispatchStep]_vars

\* C9: once preparation has finished, in the run that prepared and in every
\* resumed run, TotalObjects is the number of units of the log and
\* TotalBytes the sum of their sizes, in memory and as persisted; items
\* carrying an error and empty items are neither logged nor counted; while
\* preparing, the running totals agree with the log.
C9_TotalsInvariant ==
    /\ mainPc = "prepare" =>
          /\ totalObjects = Len(log)
          /\ totalBytes = SumSizes(log)
    /\ mainPc \in {"setup", "execute", "delete", "end"} =>
          /\ header.TotalObjects = Len(log)
          /\ header.TotalBytes = SumSizes(log)
          /\ disk.TotalObjects = Len(log)
          /\ disk.TotalBytes = SumSizes(log)
    /\ \A i \in 1..Len(log) : log[i].URL # 0 /\ log[i].Size = SizeOf(log[i].URL)

\* sizes [10, 20, 30] and one dropped item give 60 and 3
C9_Witness ==
    /\ mainPc = "setup" /\ prepRan
    /\ skipped = 1
    /\ [i \in 1..Len(log) |-> log[i].Size] = <<10, 20, 30>>
    /\ header.TotalBytes = 60 /\ header.TotalObjects = 3

\* a resumed session whose LastCopied is the URL of the last unit of the log
FullyCheckpointedResume ==
    /\ Resumed /\ HasData
    /\ (IF mainPc \in {"prepare", "setup"}
        THEN header.LastCopied ELSE icLast) = LastURL

C10_ZeroWork ==
    /\ taskPc = NoTasks /\ result = NoTasks
    /\ mirrorQueue = 0 /\ mirrorWg = 0
    /\ saved = {}
    /\ ~prepRan
    /\ header.LastCopied = LastURL /\ disk.LastCopied = LastURL
    /\ header.TotalObjects = Len(log) /\ header.TotalBytes = SumSizes(log)
    /\ disk.TotalObjects = Len(log) /\ disk.TotalBytes = SumSizes(log)

\* C10 (as stated): such a resume does no transfer, no checkpoint write and
\* no preparation, keeps the totals, and ends as a completed run whose
\* session is deleted.
C10_FullResumeCompletes ==
    FullyCheckpointedResume =>
        /\ C10_ZeroWork
        /\ proc = "exited" => (mainPc = "end" /\ session = "deleted")

\* C10 (amended): such a resume does no transfer, no checkpoint write and no
\* preparation, keeps the totals, and ends as a completed run whose session
\* is deleted unless the aggregator takes the trap, in which case the
\* session is preserved unchanged.
C10_FullResumeIdempotent ==
    FullyCheckpointedResume =>
        /\ C10_ZeroWork
        /\ (proc = "exited" /\ aggPc # "trapped") =>
              (mainPc = "end" /\ session = "deleted" /\ exitCode = 0
               /\ replayed = 1..Len(log))
        /\ (proc = "exited" /\ aggPc = "trapped") => session = "live"

\* a fully checkpointed session of 3 units was resumed and completed
C10_Witness ==
    /\ FullyCheckpointedResume /\ Len(log) = 3
    /\ mainPc = "end" /\ session = "deleted" /\ replayed = {1, 2, 3}

\* every unit of the log was replayed or had its result received
FullyCovered ==
    \A i \in 1..Len(log) : i \in replayed \/ result[i] \in {"ok", "skip"}

\* C11: a process that has exited has status 0 only when the run completed
\* fully (every unit of the log replayed or its result received, session
\* deleted by mainMirror); a run ended by the trap, in the preparation phase
\* or in the execution phase, or by a fatal error has a non-zero status.
C11_ExitStatus ==
    proc = "exited" =>
        /\ exitCode = 0 =>
              (mainPc = "end" /\ session = "deleted" /\ FullyCovered)
        /\ (trapCh = "taken" \/ aggPc \in {"fatal", "trapped"}) => exitCode # 0

\* the select of doPrepareMirrorURLs took the trap
PrepInterrupted == trapCh = "taken" /\ mainPc = "prepare"

C12_PrepInv ==
    PrepInterrupted =>
        /\ session = "deleted"
        /\ proc = "exited"
        /\ header.TotalBytes = 0 /\ header.TotalObjects = 0
        /\ disk.TotalBytes = 0 /\ disk.TotalObjects = 0
        /\ aggPc = "idle" /\ execPc = "idle"
        /\ taskPc = NoTasks /\ replayed = {} /\ saved = {}
        /\ ~ENABLED Resume

C12_PrepStep == PrepInterrupted => UNCHANGED vars

\* C12: when the select of doPrepareMirrorURLs takes the trap, the session
\* is deleted and the process has exited; the totals were never committed to
\* the header or saved, the execution phase never starts, and the session
\* cannot be resumed: nothing happens afterwards.
C12_PrepInterruptDiscards == []C12_PrepInv /\ [][C12_PrepStep]_vars

\* the trap was taken after two units had been logged and counted
C12_Witness ==
    /\ PrepInterrupted
    /\ Len(log) = 2 /\ totalObjects = 2 /\ totalBytes = 30

IsFatal(e) == e # "nil" /\ ~IsSkipClass(e)

\* a task returned an error of the fatal class
Disturbed ==
    \/ aggPc = "fatal"
    \/ IsFatal(aggErr)
    \/ \E i \in Pos : IsFatal(taskErr[i])

\* doMirrorSession returned and mainMirror deleted the session
Completed ==
    /\ mainPc = "end" /\ proc = "exited" /\ exitCode = 0
    /\ session = "deleted"

C13_Inv ==
    /\ proc = "running" =>
          ENABLED ProgStep
    /\ mainPc \in {"delete", "end"} =>
          /\ statusCh = "closed" /\ aggPc = "returned" /\ execPc = "done"
          /\ scanPos = Len(log) + 1
          /\ FullyCovered
          /\ \A i \in Pos : ~Live(i)
          /\ mirrorQueue = 0 /\ mirrorWg = 0
    /\ (mainPc \in {"delete", "end"} /\ Len(log) = 0) =>
          /\ taskPc = NoTasks /\ result = NoTasks
          /\ header.TotalObjects = 0
    /\ mainPc = "end" => Completed

\* the final summary is emitted once: after it the aggregator does nothing
C13_Step == (aggPc = "returned" /\ run' = run) => aggPc' = "returned"

\* C13: with no interrupt raised and fair scheduling of the goroutines,
\* every run in which no task returns a fatal-class error completes:
\* the log is scanned to its end, every result is received, the status
\* channel is closed, the aggregator returns once and mainMirror deletes the
\* session; a running process always has a goroutine that can step; an empty
\* log completes with no dispatch and no error.
C13_Completion ==
    /\ (proc = "running") ~> (Completed \/ Disturbed)
    /\ []C13_Inv
    /\ [][C13_Step]_vars

\* a first run with a pool of one slot completed a log of 3 units with no
\* interrupt and no error
C13_Witness ==
    /\ Completed /\ run = 1 /\ numCPU = 1
    /\ trapCh = "armed"
    /\ result = <<"ok", "ok", "ok">>

\* a dispatched doMirror goroutine that has not returned
Unfinished(i) == taskPc[i] \in {"get", "put", "send", "ret"}
\* a doMirror goroutine whose send on statusCh has completed
Sent(i) == taskPc[i] \in {"ret", "done"}

C14_Inv ==
    /\ mirrorWg = Cardinality({i \in Pos : Unfinished(i)})
    /\ statusCh = "closed" =>
          /\ execPc = "done" /\ scanPos = Len(log) + 1
          /\ \A i \in Pos : ~Unfinished(i)
    /\ \A i \in Pos : Sent(i) <=> result[i] # "none"
    /\ aggPc = "returned" =>
          /\ statusCh = "closed"
          /\ \A i \in 1..Len(log) : i \in replayed \/ result[i] # "none"
          /\ \A i \in Pos : taskPc[i] # "none" => result[i] # "none"

\* a task whose result was received never sends again in that run
C14_Step ==
    \A i \in Pos : (Sent(i) /\ run' = run) =>
        /\ Sent(i)'
        /\ result'[i] = result[i]

\* C14: statusCh is closed only after the log scan has ended and every
\* dispatched doMirror has returned (mirrorWg is the number of unreturned
\* tasks and is 0 at the close), so no task is sending on or after the
\* close; a task's send completes once and its result is received once; an
\* aggregator that observed the close has received the result of every
\* dispatched task.
C14_JoinBarrier == []C14_Inv /\ [][C14_Step]_vars

\* statusCh was closed, not yet observed by the aggregator, after three
\* tasks of a pool of more than one slot had returned
C14_Witness ==
    /\ statusCh = "closed" /\ aggPc = "select"
    /\ numCPU = MaxCPU
    /\ taskPc = [i \in Pos |-> "done"]
    /\ run = 1

\* the aggregator finishes the handling of the result it holds
AggHandled == aggPc = "handle" /\ aggPc' # "handle"

C15_Step ==
    /\ (AggHandled /\ aggErr = "nil") =>
          /\ header'.LastCopied = log[aggMsg].URL
          /\ disk' = header'
          /\ aggPc' = "select" /\ proc' = "running"
    /\ (AggHandled /\ aggErr # "nil") =>
          /\ header'.LastCopied = header.LastCopied
          /\ disk'.LastCopied = header.LastCopied
    /\ (\E i \in Pos : result[i] = "none" /\ result'[i] # "none") =>
          /\ disk = header
          /\ \A j \in Pos : result[j] = "ok" => j \in saved

\* C15: when the aggregator has handled a success result, LastCopied is that
\* unit's source URL and the header on disk equals the header in memory; when
\* it has handled an error result of either class, LastCopied is what it was
\* before; whenever the aggregator receives a result, every success received
\* before it has been checkpointed and saved.
C15_CheckpointEffect == [][C15_Step]_vars

\* unit 2 succeeded and was checkpointed, the error of unit 1 was handled as
\* a skip: LastCopied is unit 2, in memory and on disk
C15_Witness ==
    /\ aggPc = "select" /\ run = 1
    /\ result[2] = "ok" /\ result[1] = "skip"
    /\ saved = {2}
    /\ header.LastCopied = log[2].URL /\ disk.LastCopied = log[2].URL

\* the goroutines of the execution phase exist
ExecPhase == mainPc \in {"execute", "delete"}

C16_Step ==
    /\ (ExecPhase /\ run' = run /\ (header' # header \/ disk' # disk)) =>
          /\ AggCheckpoint \/ AggFatal \/ AggTrap
          /\ taskPc' = taskPc /\ execPc' = execPc /\ scanPos' = scanPos
    /\ (ExecPhase /\ proc = "running" /\ proc' = "exited"
                  /\ session' = session) =>
          AggFatal \/ AggTrap
    /\ (ExecPhase /\ session' # session) =>
          /\ MainDelete
          /\ aggPc = "returned" /\ execPc = "done"

\* C16: in the execution phase every step that changes the header in memory
\* or on disk is a step of the aggregator (its checkpoint, or CloseAndDie on
\* a fatal error or on the trap), one at a time; CloseAndDie ends the
\* process only from the aggregator; no step of a transfer task or of the
\* scanner changes the header; the session is deleted only by mainMirror
\* after the aggregator has returned.
C16_SingleWriter == [][C16_Step]_vars

\* two checkpoints were written, in the order 2 then 1, while unit 3 is in
\* its write phase
C16_Witness ==
    /\ saved = {1, 2} /\ header.LastCopied = log[1].URL
    /\ disk = header
    /\ taskPc[3] = "put" /\ aggPc = "select" /\ proc = "running"

C17_Inv ==
    /\ mirrorQueue = Cardinality({i \in Pos : Unfinished(i)})
    /\ (\A i \in Pos : ~Unfinished(i)) => mirrorQueue = 0
    /\ \A i \in Pos : taskPc[i] = "done" => result[i] \in {"ok", "skip", "fatal"}

C17_Step ==
    /\ (mirrorQueue' < mirrorQueue /\ run' = run) =>
          /\ mirrorQueue' = mirrorQueue - 1
          /\ \E i \in Pos : /\ taskPc[i] = "ret" /\ taskPc'[i] = "done"
                            /\ result[i] # "none"
                            /\ \A j \in Pos \ {i} : taskPc'[j] = taskPc[j]
    /\ \A i \in Pos : (Unfinished(i) /\ ~Unfinished(i)' /\ run' = run) =>
          mirrorQueue' = mirrorQueue - 1

\* C17: the number of occupied slots of mirrorQueue is the number of
\* dispatched tasks that have not returned, and 0 once all have returned; a
\* slot is given back one at a time, by a task that returns after its result
\* was received on statusCh, whatever the result (success, error of the skip
\* class, error of the fatal class).
C17_SlotAccounting == []C17_Inv /\ [][C17_Step]_vars

\* a task started on a unit that carried an error is blocked in its send, a
\* task whose result was a skip-class error has returned, a task whose
\* success was received has not returned yet: two slots are occupied
C17_Witness ==
    /\ taskPc = <<"send", "done", "ret">>
    /\ taskErr[1] = "BrokenSymlink"
    /\ result[2] = "skip" /\ result[3] = "ok"
    /\ mirrorQueue = 2

\* C18: when mainMirror reaches session.Delete the aggregator has returned
\* on the close of statusCh, and every unit of the log was either replayed
\* (isCopied, never dispatched) or dispatched with its result, a success or
\* a skip-class error, received; no dispatched task is unfinished, no fatal
\* error was received and no trap was taken; outside the preparation phase
\* the session is deleted only there, and never once the aggregator handled
\* a fatal error or the trap.
C18_DeleteImpliesCoverage ==
    /\ mainPc \in {"delete", "end"} =>
          /\ aggPc = "returned" /\ statusCh = "closed" /\ execPc = "done"
          /\ \A i \in 1..Len(log) :
                \/ /\ i \in replayed /\ isCopied(log[i].URL)
                   /\ taskPc[i] = "none"
                \/ /\ taskPc[i] = "done" /\ result[i] \in {"ok", "skip"}
                   /\ i \notin replayed
          /\ \A i \in Pos : ~Live(i)
          /\ trapCh # "taken"
    /\ (session = "deleted" /\ mainPc # "prepare") => mainPc = "end"
    /\ aggPc \in {"fatal", "trapped"} =>
          /\ session = "live"
          /\ mainPc = "execute" /\ proc = "exited"

\* a resumed run replayed unit 1, skipped unit 2, transferred unit 3 and
\* mainMirror is about to delete the session
C18_Witness ==
    /\ mainPc = "delete" /\ run = 2
    /\ replayed = {1}
    /\ result[2] = "skip" /\ result[3] = "ok"
    /\ session = "live"

C19_Inv ==
    \A i \in Pos :
        /\ taskPc[i] = "put" => taskErr[i] = "nil"
        /\ Sent(i) <=> result[i] # "none"

C19_Step ==
    \A i \in Pos :
        /\ (taskPc[i] = "get" /\ taskErr[i] # "nil") =>
              /\ taskPc'[i] \in {"get", "send"}
              /\ taskErr'[i] = taskErr[i]
              /\ ~TaskGetOk(i)
              /\ \A e \in GetErrors : ~TaskGetErr(i, e)
        /\ (taskPc[i] = "get" /\ taskErr[i] = "nil" /\ taskErr'[i] # "nil") =>
              /\ taskPc'[i] = "send"
              /\ taskErr'[i] \in GetErrors
        /\ (taskPc[i] # "put" /\ taskPc'[i] = "put") =>
              /\ TaskGetOk(i)
              /\ taskErr'[i] = "nil"
        /\ taskPc[i] = "send" =>
              \/ taskPc'[i] = "send" /\ taskErr'[i] = taskErr[i]
              \/ /\ taskPc'[i] = "ret"
                 /\ aggMsg' = i /\ aggErr' = taskErr[i]
                 /\ result[i] = "none" /\ result'[i] = ClassOf(taskErr[i])
        /\ taskPc[i] = "ret" => taskPc'[i] \in {"ret", "done"}
        /\ taskPc[i] = "done" => taskPc'[i] = "done"

\* C19: a task whose getSource fails goes from getSource straight to its
\* send, with the getSource error as its result, and putTargets is entered
\* only after a successful getSource; a task started on a unit that already
\* carries an error goes straight to its send with that error, through
\* neither getSource nor putTargets; a sending task hands over exactly that
\* error, once, then returns and takes no further step.
C19_NoPutAfterFailedGet == []C19_Inv /\ [][C19_Step]_vars

\* unit 1 carried an error on entry and unit 2 failed in getSource: both
\* tasks are blocked in their send
C19_Witness ==
    /\ taskPc[1] = "send" /\ taskErr[1] = "BrokenSymlink"
    /\ taskPc[2] = "send" /\ taskErr[2] = "PathNotFound"

\* doMirror calls progressReader (SetCaption, ErrorGet, NewProxyReader,
\* ErrorPut) and the aggregator calls progressReader.Finish when neither the
\* quiet nor the JSON flag is set
MirrorCallsBar == ~globalQuietFlag /\ ~globalJSONFlag
FinishCallsBar == ~globalQuietFlag /\ ~globalJSONFlag

\* C20: in every combination of the quiet, JSON and debug flags, a run in
\* which a unit was replayed by doMirrorFake, a unit was handed to doMirror
\* or the aggregator emitted the final summary did not call a method of
\* progressReader unless progressReader was constructed.
C20_ProgressNeverNil ==
    /\ (replayed # {} /\ FakeCallsBar) => BarConstructed
    /\ ((\E i \in Pos : taskPc[i] # "none") /\ MirrorCallsBar) => BarConstructed
    /\ (aggPc = "returned" /\ FinishCallsBar) => BarConstructed
====
